---- MODULE Spec2Model ----
(***************************************************************************)
(* Model of src/app.py: the Bengaluru housing dashboard.                   *)
(*                                                                         *)
(* Python strings are sequences of one-character strings.  Python floats   *)
(* are extended rationals: a record [k, n, d] that is NaN, +/-infinity or  *)
(* the finite value n/d in lowest terms (rounding is not modelled: the     *)
(* arithmetic is exact).  A DataFrame is a sequence of rows in index       *)
(* order.                                                                  *)
(***************************************************************************)
EXTENDS Integers, Sequences, FiniteSets, TLC

(***************************************************************************)
(* Floats                                                                  *)
(***************************************************************************)
NaN == [k |-> "nan", n |-> 0, d |-> 1]

Inf(sign) == [k |-> "inf", n |-> sign, d |-> 1]

Abs(i) == IF i < 0 THEN -i ELSE i

Sgn(i) == IF i < 0 THEN -1 ELSE IF i = 0 THEN 0 ELSE 1

RECURSIVE Gcd(_, _)
Gcd(a, b) == IF b = 0 THEN a ELSE Gcd(b, a % b)

\* the finite float n/d (d # 0), in lowest terms with a positive denominator
Fin(n, d) ==
    LET g == Gcd(Abs(n), Abs(d))
    IN  [k |-> "fin", n |-> (Sgn(d) * n) \div g, d |-> Abs(d) \div g]

IsNaN(f) == f.k = "nan"

IsFinite(f) == f.k = "fin"

\* the sign of a float that is not NaN
SignOf(f) == Sgn(f.n)

FAdd(a, b) ==
    IF IsNaN(a) \/ IsNaN(b) THEN NaN
    ELSE IF a.k = "inf" /\ b.k = "inf" THEN (IF a.n = b.n THEN a ELSE NaN)
    ELSE IF a.k = "inf" THEN a
    ELSE IF b.k = "inf" THEN b
    ELSE Fin(a.n * b.d + b.n * a.d, a.d * b.d)

FMul(a, b) ==
    IF IsNaN(a) \/ IsNaN(b) THEN NaN
    ELSE IF a.k = "inf" \/ b.k = "inf"
         THEN (IF SignOf(a) = 0 \/ SignOf(b) = 0 THEN NaN
               ELSE Inf(SignOf(a) * SignOf(b)))
    ELSE LET g1 == Gcd(Abs(a.n), b.d)
             g2 == Gcd(Abs(b.n), a.d)
         IN  Fin((a.n \div g1) * (b.n \div g2), (a.d \div g2) * (b.d \div g1))

\* IEEE division as numpy performs it: x/0 is +/-inf, 0/0 and inf/inf are NaN
FDiv(a, b) ==
    IF IsNaN(a) \/ IsNaN(b) THEN NaN
    ELSE IF b.k = "inf" THEN (IF a.k = "inf" THEN NaN ELSE Fin(0, 1))
    ELSE IF a.k = "inf" THEN Inf(a.n * (IF b.n < 0 THEN -1 ELSE 1))
    ELSE IF b.n = 0 THEN (IF a.n = 0 THEN NaN ELSE Inf(Sgn(a.n)))
    ELSE FMul(a, Fin(b.d, b.n))

\* a < b on floats; every comparison with NaN is false
FLess(a, b) ==
    IF IsNaN(a) \/ IsNaN(b) THEN FALSE
    ELSE IF a.k = "inf" THEN a.n = -1 /\ ~(b.k = "inf" /\ b.n = -1)
    ELSE IF b.k = "inf" THEN b.n = 1
    ELSE a.n * b.d < b.n * a.d

RECURSIVE FSum(_)
FSum(fs) == IF fs = <<>> THEN Fin(0, 1) ELSE FAdd(Head(fs), FSum(Tail(fs)))

\* np.mean of a non-empty list of floats
Mean(fs) == FDiv(FSum(fs), Fin(Len(fs), 1))

(***************************************************************************)
(* Strings                                                                 *)
(***************************************************************************)
Digits == <<"0", "1", "2", "3", "4", "5", "6", "7", "8", "9">>

IsDigit(c) == \E i \in 1..10 : Digits[i] = c

DigitVal(c) == (CHOOSE i \in 1..10 : Digits[i] = c) - 1

IsSpace(c) == c \in {" ", "\t"}

\* s[i..j], empty when i > j
Slice(s, i, j) == IF i > j THEN <<>> ELSE SubSeq(s, i, j)

\* sub in s
Contains(s, sub) ==
    \E i \in 1..(Len(s) - Len(sub) + 1) : SubSeq(s, i, i + Len(sub) - 1) = sub

\* s.startswith(prefix)
StartsWith(s, prefix) ==
    Len(s) >= Len(prefix) /\ SubSeq(s, 1, Len(prefix)) = prefix

\* s.split(sep) for a one-character sep: always at least one part
RECURSIVE Split(_, _)
Split(s, sep) ==
    IF \A i \in 1..Len(s) : s[i] # sep THEN <<s>>
    ELSE LET i == CHOOSE i \in 1..Len(s) :
                      s[i] = sep /\ \A j \in 1..(i - 1) : s[j] # sep
         IN  <<Slice(s, 1, i - 1)>> \o Split(Slice(s, i + 1, Len(s)), sep)

\* s.strip()
Strip(s) ==
    LET keep == {i \in 1..Len(s) : ~IsSpace(s[i])}
    IN  IF keep = {} THEN <<>>
        ELSE Slice(s, CHOOSE i \in keep : \A j \in keep : i <= j,
                      CHOOSE i \in keep : \A j \in keep : i >= j)

\* ASCII lower-casing of the letters that spell inf, infinity and nan
Lower(c) ==
    CASE c = "I" -> "i" [] c = "N" -> "n" [] c = "F" -> "f" [] c = "T" -> "t"
      [] c = "Y" -> "y" [] c = "A" -> "a" [] OTHER -> c

LowerStr(s) == [i \in 1..Len(s) |-> Lower(s[i])]

\* a digit run of a numeric literal: digits, single underscores between them
IsDigitRun(s) ==
    /\ s # <<>>
    /\ \A i \in 1..Len(s) : IsDigit(s[i]) \/ s[i] = "_"
    /\ IsDigit(s[1]) /\ IsDigit(s[Len(s)])
    /\ \A i \in 1..(Len(s) - 1) : ~(s[i] = "_" /\ s[i + 1] = "_")

RECURSIVE DigitsValue(_)
DigitsValue(s) ==
    IF s = <<>> THEN 0
    ELSE IF s[Len(s)] = "_" THEN DigitsValue(Slice(s, 1, Len(s) - 1))
    ELSE 10 * DigitsValue(Slice(s, 1, Len(s) - 1)) + DigitVal(s[Len(s)])

\* the number of digits of a digit run
NumDigits(s) == Cardinality({i \in 1..Len(s) : IsDigit(s[i])})

RECURSIVE Pow10(_)
Pow10(e) == IF e = 0 THEN 1 ELSE 10 * Pow10(e - 1)

HasSign(s) == s # <<>> /\ s[1] \in {"+", "-"}

SignValue(s) == IF s # <<>> /\ s[1] = "-" THEN -1 ELSE 1

Unsigned(s) == IF HasSign(s) THEN Tail(s) ELSE s

(***************************************************************************)
(* float(s) and int(s): [ok |-> FALSE] stands for ValueError               *)
(***************************************************************************)
Failed == [ok |-> FALSE, f |-> NaN]

Parsed(f) == [ok |-> TRUE, f |-> f]

\* position of the first exponent marker of s, 0 when there is none
ExpPos(s) ==
    LET at == {i \in 1..Len(s) : s[i] \in {"e", "E"}}
    IN  IF at = {} THEN 0 ELSE CHOOSE i \in at : \A j \in at : i <= j

\* position of the first decimal point of s, 0 when there is none
DotPos(s) ==
    LET at == {i \in 1..Len(s) : s[i] = "."}
    IN  IF at = {} THEN 0 ELSE CHOOSE i \in at : \A j \in at : i <= j

\* an unsigned mantissa: digits, digits. , .digits or digits.digits
ParseMantissa(m) ==
    LET p  == DotPos(m)
        ip == IF p = 0 THEN m ELSE Slice(m, 1, p - 1)
        fp == IF p = 0 THEN <<>> ELSE Slice(m, p + 1, Len(m))
    IN  IF /\ (ip = <<>> \/ IsDigitRun(ip))
           /\ (fp = <<>> \/ IsDigitRun(fp))
           /\ (ip # <<>> \/ fp # <<>>)
        THEN Parsed(Fin(DigitsValue(ip) * Pow10(NumDigits(fp)) + DigitsValue(fp),
                        Pow10(NumDigits(fp))))
        ELSE Failed

\* float(s) for a Python string s
ParseFloat(s) ==
    LET t    == Strip(s)
        sign == SignValue(t)
        u    == Unsigned(t)
        e    == ExpPos(u)
        m    == IF e = 0 THEN u ELSE Slice(u, 1, e - 1)
        x    == IF e = 0 THEN <<>> ELSE Slice(u, e + 1, Len(u))
        mant == ParseMantissa(m)
    IN  IF LowerStr(u) \in {<<"i", "n", "f">>,
                            <<"i", "n", "f", "i", "n", "i", "t", "y">>}
        THEN Parsed(Inf(sign))
        ELSE IF LowerStr(u) = <<"n", "a", "n">> THEN Parsed(NaN)
        ELSE IF ~mant.ok THEN Failed
        ELSE IF e = 0 THEN Parsed(FMul(Fin(sign, 1), mant.f))
        ELSE IF ~IsDigitRun(Unsigned(x)) THEN Failed
        ELSE IF SignValue(x) = 1
             THEN Parsed(FMul(Fin(sign * Pow10(DigitsValue(Unsigned(x))), 1), mant.f))
             ELSE Parsed(FMul(Fin(sign, Pow10(DigitsValue(Unsigned(x)))), mant.f))

\* int(s) for a Python string s: [ok, n]
ParseInt(s) ==
    LET t == Strip(s)
    IN  IF IsDigitRun(Unsigned(t))
        THEN [ok |-> TRUE, n |-> SignValue(t) * DigitsValue(Unsigned(t))]
        ELSE [ok |-> FALSE, n |-> 0]

\* the decimal digits of a natural number
RECURSIVE NatStr(_)
NatStr(n) ==
    IF n < 10 THEN <<Digits[n + 1]>> ELSE NatStr(n \div 10) \o <<Digits[(n % 10) + 1]>>

\* the least k with d dividing 10^k (d is the denominator of a terminating decimal)
RECURSIVE FracDigits(_, _)
FracDigits(d, k) == IF Pow10(k) % d = 0 THEN k ELSE FracDigits(d, k + 1)

\* n as exactly k digits, zero-padded on the left
RECURSIVE PadStr(_, _)
PadStr(n, k) == IF k = 0 THEN <<>> ELSE PadStr(n \div 10, k - 1) \o <<Digits[(n % 10) + 1]>>

\* str(f) for a float f whose decimal expansion terminates
FloatStr(f) ==
    IF IsNaN(f) THEN <<"n", "a", "n">>
    ELSE IF f.k = "inf"
         THEN (IF f.n < 0 THEN <<"-">> ELSE <<>>) \o <<"i", "n", "f">>
    ELSE LET k == FracDigits(f.d, 0)
             a == (Abs(f.n) * Pow10(k)) \div f.d
         IN  (IF f.n < 0 THEN <<"-">> ELSE <<>>)
             \o NatStr(a \div Pow10(k)) \o <<".">>
             \o (IF k = 0 THEN <<"0">> ELSE PadStr(a % Pow10(k), k))

(***************************************************************************)
(* Python values held in DataFrame cells                                   *)
(***************************************************************************)
PyStr(s) == [t |-> "str", s |-> s, f |-> NaN]

PyFloat(f) == [t |-> "float", s |-> <<>>, f |-> f]

\* the missing marker of pandas
Missing == PyFloat(NaN)

\* isinstance(x, str)
IsStr(x) == x.t = "str"

\* pd.isna(x)
IsNA(x) == x.t = "float" /\ IsNaN(x.f)

\* str(x)
ToStr(x) == IF IsStr(x) THEN x.s ELSE FloatStr(x.f)

(***************************************************************************)
(* load_data and its helpers                                               *)
(***************************************************************************)
BHK_SUBSTR == <<"B", "H", "K">>

BEDROOM_SUBSTR == <<"B", "e", "d", "r", "o", "o", "m">>

\* price is in Lakhs
LAKH == 100000

\* rows with BHK below this are kept
BHK_LIMIT == 10

\* clean_sqft with the range resolved to its first endpoint instead of the mean
clean_sqft_first_endpoint(x) ==
    IF IsStr(x) /\ Contains(x.s, <<"-">>)
    THEN LET parts == Split(x.s, "-")
             fs    == [i \in 1..Len(parts) |-> ParseFloat(Strip(parts[i]))]
         IN  IF \A i \in 1..Len(parts) : fs[i].ok THEN fs[1].f ELSE NaN
    ELSE LET r == ParseFloat(Split(ToStr(x), " ")[1])
         IN  IF r.ok THEN r.f ELSE NaN

\* clean_sqft(x): the bare except turns every failure into NaN
clean_sqft(x) ==
    IF IsStr(x) /\ Contains(x.s, <<"-">>)
    THEN LET parts == Split(x.s, "-")
             fs    == [i \in 1..Len(parts) |-> ParseFloat(Strip(parts[i]))]
         IN  IF \A i \in 1..Len(parts) : fs[i].ok
             THEN Mean([i \in 1..Len(parts) |-> fs[i].f])
             ELSE NaN
    ELSE LET r == ParseFloat(Split(ToStr(x), " ")[1])
         IN  IF r.ok THEN r.f ELSE NaN

\* the BHK lambda: int() is not guarded, so [raised |-> TRUE] is ValueError
derive_bhk(x) ==
    IF IsStr(x) /\ (Contains(x.s, BHK_SUBSTR) \/ Contains(x.s, BEDROOM_SUBSTR))
    THEN LET r == ParseInt(Split(x.s, " ")[1])
         IN  IF r.ok THEN [raised |-> FALSE, f |-> Fin(r.n, 1)]
             ELSE [raised |-> TRUE, f |-> NaN]
    ELSE [raised |-> FALSE, f |-> NaN]

\* pd.read_csv: a DataFrame whose index is the position of the row in the file
read_csv(rows) ==
    [i \in 1..Len(rows) |->
        [index |-> i, area_type |-> rows[i].area_type, size |-> rows[i].size,
         total_sqft |-> rows[i].total_sqft, price |-> rows[i].price,
         location |-> rows[i].location]]

\* df['total_sqft'] = df['total_sqft'].apply(clean_sqft)
apply_clean_sqft(df) ==
    [i \in 1..Len(df) |-> [df[i] EXCEPT !.total_sqft = PyFloat(clean_sqft(@))]]

\* df.dropna(subset=['size'])
dropna_size(df) == SelectSeq(df, LAMBDA r : ~IsNA(r.size))

\* does the BHK lambda raise on some row of df
bhk_raises(df) == \E i \in 1..Len(df) : derive_bhk(df[i].size).raised

\* df['BHK'] = df['size'].apply(...), when no row raises
apply_bhk(df) ==
    [i \in 1..Len(df) |->
        [index |-> df[i].index, area_type |-> df[i].area_type, size |-> df[i].size,
         total_sqft |-> df[i].total_sqft, price |-> df[i].price,
         location |-> df[i].location, BHK |-> PyFloat(derive_bhk(df[i].size).f)]]

\* df.dropna(subset=['BHK', 'total_sqft', 'price', 'location'])
dropna_critical(df) ==
    SelectSeq(df, LAMBDA r : ~IsNA(r.BHK) /\ ~IsNA(r.total_sqft)
                              /\ ~IsNA(r.price) /\ ~IsNA(r.location))

\* df['price_per_sqft'] = (df['price'] * 100000) / df['total_sqft']
add_price_per_sqft(df) ==
    [i \in 1..Len(df) |->
        [index |-> df[i].index, area_type |-> df[i].area_type, size |-> df[i].size,
         total_sqft |-> df[i].total_sqft, price |-> df[i].price,
         location |-> df[i].location, BHK |-> df[i].BHK,
         price_per_sqft |->
             PyFloat(FDiv(FMul(df[i].price.f, Fin(LAKH, 1)), df[i].total_sqft.f))]]

\* the outlier filter with <= in place of <
filter_bhk_inclusive(df) ==
    SelectSeq(df, LAMBDA r : ~FLess(Fin(BHK_LIMIT, 1), r.BHK.f))

\* df[df['BHK'] < 10]
filter_bhk(df) == SelectSeq(df, LAMBDA r : FLess(r.BHK.f, Fin(BHK_LIMIT, 1)))

(***************************************************************************)
(* Presentation: the plot functions.  Each returns the frame as the call   *)
(* leaves it and the chart handed to st.pyplot.                            *)
(***************************************************************************)
\* the options of the selectbox
PLOT_OPTIONS == <<
    <<"1", ".", " ", "P", "r", "i", "c", "e", " ", "D", "i", "s", "t", "r", "i", "b", "u", "t", "i", "o", "n">>,
    <<"2", ".", " ", "P", "r", "i", "c", "e", " ", "v", "s", ".", " ", "S", "i", "z", "e", " ", "(", "B", "H", "K", ")">>,
    <<"3", ".", " ", "T", "o", "p", " ", "1", "0", " ", "L", "o", "c", "a", "t", "i", "o", "n", "s", " ", "b", "y", " ", "C", "o", "u", "n", "t">>,
    <<"4", ".", " ", "P", "r", "i", "c", "e", " ", "v", "s", ".", " ", "S", "q", "u", "a", "r", "e", " ", "F", "o", "o", "t", "a", "g", "e">>,
    <<"5", ".", " ", "A", "r", "e", "a", " ", "T", "y", "p", "e", " ", "D", "i", "s", "t", "r", "i", "b", "u", "t", "i", "o", "n">> >>

HIST_BINS == 30

TOP_N == 10

SQFT_XLIM == 5000

PRICE_YLIM == 1000

HEAD_ROWS == 5

\* the column col of df as a list
Column(df, col) == [i \in 1..Len(df) |-> df[i][col]]

\* the positions of df at which column col shows a value for the first time
FirstSeen(df, col) ==
    {i \in 1..Len(df) : \A j \in 1..(i - 1) : df[j][col] # df[i][col]}

CountOf(df, col, v) == Cardinality({i \in 1..Len(df) : df[i][col] = v})

\* Series.value_counts(): [label, count] by count descending; equal counts keep
\* the order of first appearance
RECURSIVE SortCounts(_, _)
SortCounts(df, left) ==
    IF left = {} THEN <<>>
    ELSE LET i == CHOOSE i \in left : \A j \in left :
                      \/ CountOf(df, "c", df[i].c) > CountOf(df, "c", df[j].c)
                      \/ /\ CountOf(df, "c", df[i].c) = CountOf(df, "c", df[j].c)
                         /\ i <= j
         IN  <<[label |-> df[i].c, count |-> CountOf(df, "c", df[i].c)]>>
             \o SortCounts(df, left \ {i})

value_counts(df, col) ==
    LET s == [i \in 1..Len(df) |-> [c |-> df[i][col]]]
    IN  SortCounts(s, FirstSeen(s, "c"))

\* s.head(n)
head(s, n) == Slice(s, 1, IF Len(s) < n THEN Len(s) ELSE n)

plot_1_price_distribution(df) ==
    [df |-> df,
     out |-> <<[kind |-> 1, bins |-> HIST_BINS, data |-> Column(df, "price")]>>]

plot_2_bhk_vs_price(df) ==
    [df |-> df,
     out |-> <<[kind |-> 2, x |-> Column(df, "BHK"), y |-> Column(df, "price")]>>]

plot_3_top_locations(df) ==
    [df |-> df,
     out |-> <<[kind |-> 3, bars |-> head(value_counts(df, "location"), TOP_N)]>>]

\* is the point (x, y) inside the axis limits set by set_xlim and set_ylim
InWindow(x, y) ==
    /\ ~FLess(x, Fin(0, 1)) /\ ~FLess(Fin(SQFT_XLIM, 1), x)
    /\ ~FLess(y, Fin(0, 1)) /\ ~FLess(Fin(PRICE_YLIM, 1), y)
    /\ ~IsNaN(x) /\ ~IsNaN(y)

\* the scatter plot clipping the frame itself to the window
plot_4_clipping(df) ==
    [df |-> SelectSeq(df, LAMBDA r : InWindow(r.total_sqft.f, r.price.f)),
     out |-> <<[kind |-> 4,
                x |-> Column(df, "total_sqft"), y |-> Column(df, "price"),
                drawn |-> SelectSeq(df, LAMBDA r : InWindow(r.total_sqft.f, r.price.f))]>>]

plot_4_scatter_sqft_price(df) ==
    [df |-> df,
     out |-> <<[kind |-> 4,
                x |-> Column(df, "total_sqft"), y |-> Column(df, "price"),
                drawn |-> SelectSeq(df, LAMBDA r : InWindow(r.total_sqft.f, r.price.f))]>>]

plot_5_area_type_distribution(df) ==
    [df |-> df, out |-> <<[kind |-> 5, wedges |-> value_counts(df, "area_type")]>>]

\* the chain testing '1' in selected_plot instead of startswith('1')
dispatch_substring(sel, df) ==
    IF Contains(sel, <<"1">>) THEN plot_1_price_distribution(df)
    ELSE IF Contains(sel, <<"2">>) THEN plot_2_bhk_vs_price(df)
    ELSE IF Contains(sel, <<"3">>) THEN plot_3_top_locations(df)
    ELSE IF Contains(sel, <<"4">>) THEN plot_4_scatter_sqft_price(df)
    ELSE IF Contains(sel, <<"5">>) THEN plot_5_area_type_distribution(df)
    ELSE [df |-> df, out |-> <<>>]

\* the if/elif chain of lines 103-112; it has no else branch
dispatch(sel, df) ==
    IF StartsWith(sel, <<"1">>) THEN plot_1_price_distribution(df)
    ELSE IF StartsWith(sel, <<"2">>) THEN plot_2_bhk_vs_price(df)
    ELSE IF StartsWith(sel, <<"3">>) THEN plot_3_top_locations(df)
    ELSE IF StartsWith(sel, <<"4">>) THEN plot_4_scatter_sqft_price(df)
    ELSE IF StartsWith(sel, <<"5">>) THEN plot_5_area_type_distribution(df)
    ELSE [df |-> df, out |-> <<>>]

(***************************************************************************)
(* Inputs: the cells read_csv can deliver                                  *)
(***************************************************************************)
\* total_sqft: strings of an object column, floats of a numeric one, missing
SqftInputs ==
    { PyStr(<<"1", "0", "0", "0", " ", "-", " ", "1", "2", "0", "0">>),
      PyStr(<<"-", "5", " ", "-", " ", "1", "0">>),
      PyStr(<<"1", "0", "0", "0", " ", "-", " ", "x">>),
      PyStr(<<"1", "-", "2", "-", "3">>),
      PyStr(<<"1", "2", "0", "0">>),
      PyStr(<<"0">>),
      PyStr(<<"i", "n", "f">>),
      PyStr(<<"a", "b", "c">>),
      PyStr(<<"3", "4", ".", "4", "6", "S", "q", ".", " ", "M", "e", "t", "e", "r">>),
      PyStr(<<"1", "0", "0", "0", " ", "S", "q", ".", " ", "M", "e", "t", "e", "r">>),
      PyStr(<<"6", "0", "0", "0">>),
      PyFloat(Fin(-5, 1)), Missing }

SizeInputs ==
    { PyStr(<<"2", " ", "B", "H", "K">>),
      PyStr(<<"3", " ", "B", "e", "d", "r", "o", "o", "m">>),
      PyStr(<<"S", "t", "u", "d", "i", "o">>),
      PyStr(<<"2", " ", "b", "h", "k">>),
      PyStr(<<"B", "H", "K", " ", "2">>),
      PyStr(<<"2", ".", "5", " ", "B", "H", "K">>),
      PyStr(<<"0", " ", "B", "H", "K">>),
      PyStr(<<"-", "1", " ", "B", "H", "K">>),
      PyStr(<<"1", "0", " ", "B", "H", "K">>),
      Missing }

PriceInputs == {PyFloat(Fin(50, 1)), PyFloat(Fin(20, 1)), PyFloat(Fin(2000, 1)), Missing}

LocationInputs == {PyStr(<<"X">>), PyStr(<<"Y">>), Missing}

AreaTypeInputs == {PyStr(<<"P", "l", "o", "t">>), PyStr(<<"S", "u", "p", "e", "r">>)}

RawRow(size, total_sqft, price, location, area_type) ==
    [area_type |-> area_type, size |-> size, total_sqft |-> total_sqft,
     price |-> price, location |-> location]

BaseRow == RawRow(PyStr(<<"2", " ", "B", "H", "K">>), PyStr(<<"1", "2", "0", "0">>), PyFloat(Fin(50, 1)), PyStr(<<"X">>), PyStr(<<"P", "l", "o", "t">>))

\* the number of fields in which row r differs from BaseRow
Deviations(r) ==
    Cardinality({c \in {"area_type", "size", "total_sqft", "price", "location"} :
                    r[c] # BaseRow[c]})

\* the rows of the files: BaseRow with at most one field changed, and the rows
\* with an outlier BHK or a malformed size next to a missing field
RawRows ==
    {r \in [area_type : AreaTypeInputs, size : SizeInputs, total_sqft : SqftInputs,
            price : PriceInputs, location : LocationInputs] :
        \/ Deviations(r) <= 1
        \/ /\ Deviations(r) = 2
           /\ r.size \in {PyStr(<<"1", "0", " ", "B", "H", "K">>), PyStr(<<"B", "H", "K", " ", "2">>)}
           /\ Missing \in {r.total_sqft, r.price, r.location}}

\* the longest file
MaxRows == 2

\* the script runs of one process
MaxRuns == 3

RECURSIVE SeqsUpTo(_, _)
SeqsUpTo(S, n) ==
    IF n = 0 THEN {<<>>}
    ELSE LET shorter == SeqsUpTo(S, n - 1)
         IN  shorter \cup {Append(t, x) : t \in {u \in shorter : Len(u) = n - 1}, x \in S}

\* every file of at most MaxRows rows
Tables == SeqsUpTo(RawRows, MaxRows)

\* the files of the dashboard runs: one with a row outside the scatter window and
\* a row that is dropped, one with a repeated location, one whose size is malformed
AppTables ==
    { <<RawRow(PyStr(<<"2", " ", "B", "H", "K">>), PyStr(<<"1", "0", "0", "0", " ", "-", " ", "1", "2", "0", "0">>), PyFloat(Fin(50, 1)), PyStr(<<"X">>), PyStr(<<"S", "u", "p", "e", "r">>)),
        RawRow(PyStr(<<"S", "t", "u", "d", "i", "o">>), PyStr(<<"1", "2", "0", "0">>), PyFloat(Fin(20, 1)), PyStr(<<"Y">>), PyStr(<<"P", "l", "o", "t">>)),
        RawRow(PyStr(<<"3", " ", "B", "e", "d", "r", "o", "o", "m">>), PyStr(<<"6", "0", "0", "0">>), PyFloat(Fin(2000, 1)), PyStr(<<"Y">>), PyStr(<<"P", "l", "o", "t">>))>>,
      <<BaseRow, BaseRow>>,
      <<RawRow(PyStr(<<"B", "H", "K", " ", "2">>), PyStr(<<"1", "2", "0", "0">>), PyFloat(Fin(50, 1)), PyStr(<<"X">>), PyStr(<<"P", "l", "o", "t">>))>> }

(***************************************************************************)
(* The script.  Streamlit runs it top to bottom once when the session      *)
(* starts and once more after every widget interaction; pc is the line the *)
(* run is at, "idle" between runs.                                         *)
(***************************************************************************)
VARIABLES
    file_status,    \* the CSV on disk: "ok", "absent" or "garbled"
    file_rows,      \* its rows
    cache,          \* the st.cache_data entry of load_data(FILE_NAME)
    reads,          \* calls of pd.read_csv so far
    runs,           \* script runs started so far
    pc,             \* position of the current run
    df,             \* the local df of load_data
    df_clean,       \* the module global df_clean (empty until line 43 returns)
    selected_plot,  \* value of the selectbox
    show_raw,       \* value of the checkbox
    rendered,       \* charts passed to st.pyplot in this run
    preview,        \* what st.write showed in this run
    raised          \* the exception that ended this run: "none", "source", "ValueError"

vars == <<file_status, file_rows, cache, reads, runs, pc, df, df_clean,
          selected_plot, show_raw, rendered, preview, raised>>

FileStatuses == {"ok", "absent", "garbled"}

NoEntry == [hit |-> FALSE, df |-> <<>>]

NoPreview == [shown |-> FALSE, rows |-> <<>>]

\* the first run of a session: the selectbox shows its first option, the
\* checkbox is clear
FirstRun ==
    /\ cache = NoEntry
    /\ reads = 0
    /\ runs = 1
    /\ pc = "L43"
    /\ df = <<>>
    /\ df_clean = <<>>
    /\ selected_plot = PLOT_OPTIONS[1]
    /\ show_raw = FALSE
    /\ rendered = <<>>
    /\ preview = NoPreview
    /\ raised = "none"

\* the states of the file: a readable file holds a table, an absent or garbled
\* one holds no rows
Files(tables) ==
    {<<"ok", t>> : t \in tables} \cup {<<st, <<>>>> : st \in FileStatuses \ {"ok"}}

Init ==
    /\ \E f \in Files(AppTables) : file_status = f[1] /\ file_rows = f[2]
    /\ FirstRun

\* line 43 without memoization: the body runs although a result is cached
CacheBypass ==
    /\ pc = "L43"
    /\ cache.hit
    /\ pc' = "L13"
    /\ UNCHANGED <<file_status, file_rows, cache, reads, runs, df, df_clean,
                   selected_plot, show_raw, rendered, preview, raised>>

\* line 43 with the result cached: the body of load_data does not run
CacheHit ==
    /\ pc = "L43"
    /\ cache.hit
    /\ df_clean' = cache.df
    /\ pc' = "L103"
    /\ UNCHANGED <<file_status, file_rows, cache, reads, runs, df, selected_plot,
                   show_raw, rendered, preview, raised>>

\* line 43 with nothing cached: the body of load_data runs
CacheMiss ==
    /\ pc = "L43"
    /\ ~cache.hit
    /\ pc' = "L13"
    /\ UNCHANGED <<file_status, file_rows, cache, reads, runs, df, df_clean,
                   selected_plot, show_raw, rendered, preview, raised>>

\* line 13 with the failure reported but the run carried on to the charts
ReadCsv_continue ==
    /\ pc = "L13"
    /\ reads' = reads + 1
    /\ IF file_status = "ok"
       THEN /\ df' = read_csv(file_rows)
            /\ pc' = "L27"
            /\ raised' = raised
       ELSE /\ df' = df
            /\ pc' = "L103"
            /\ raised' = "source"
    /\ UNCHANGED <<file_status, file_rows, cache, runs, df_clean, selected_plot,
                   show_raw, rendered, preview>>

\* line 13: pd.read_csv raises on a file that is absent or not parseable, and the
\* exception leaves load_data and ends the run
ReadCsv ==
    /\ pc = "L13"
    /\ reads' = reads + 1
    /\ IF file_status = "ok"
       THEN /\ df' = read_csv(file_rows)
            /\ pc' = "L27"
            /\ raised' = raised
       ELSE /\ df' = df
            /\ pc' = "idle"
            /\ raised' = "source"
    /\ UNCHANGED <<file_status, file_rows, cache, runs, df_clean, selected_plot,
                   show_raw, rendered, preview>>

\* line 27
CleanSqft ==
    /\ pc = "L27"
    /\ df' = apply_clean_sqft(df)
    /\ pc' = "L30"
    /\ UNCHANGED <<file_status, file_rows, cache, reads, runs, df_clean,
                   selected_plot, show_raw, rendered, preview, raised>>

\* line 30
DropnaSize ==
    /\ pc = "L30"
    /\ df' = dropna_size(df)
    /\ pc' = "L31"
    /\ UNCHANGED <<file_status, file_rows, cache, reads, runs, df_clean,
                   selected_plot, show_raw, rendered, preview, raised>>

\* line 31: a ValueError of int() leaves load_data and ends the run
DeriveBHK ==
    /\ pc = "L31"
    /\ IF bhk_raises(df)
       THEN /\ df' = df
            /\ pc' = "idle"
            /\ raised' = "ValueError"
       ELSE /\ df' = apply_bhk(df)
            /\ pc' = "L34"
            /\ raised' = raised
    /\ UNCHANGED <<file_status, file_rows, cache, reads, runs, df_clean,
                   selected_plot, show_raw, rendered, preview>>

\* line 34
DropnaCritical ==
    /\ pc = "L34"
    /\ df' = dropna_critical(df)
    /\ pc' = "L37"
    /\ UNCHANGED <<file_status, file_rows, cache, reads, runs, df_clean,
                   selected_plot, show_raw, rendered, preview, raised>>

\* line 37
PricePerSqft ==
    /\ pc = "L37"
    /\ df' = add_price_per_sqft(df)
    /\ pc' = "L40"
    /\ UNCHANGED <<file_status, file_rows, cache, reads, runs, df_clean,
                   selected_plot, show_raw, rendered, preview, raised>>

\* lines 40-43: the filtered frame is returned, cached and bound to df_clean
FilterReturn ==
    /\ pc = "L40"
    /\ df' = filter_bhk(df)
    /\ cache' = [hit |-> TRUE, df |-> df']
    /\ df_clean' = df'
    /\ pc' = "L103"
    /\ UNCHANGED <<file_status, file_rows, reads, runs, selected_plot, show_raw,
                   rendered, preview, raised>>

\* lines 103-112
Dispatch ==
    /\ pc = "L103"
    /\ df_clean' = dispatch(selected_plot, df_clean).df
    /\ rendered' = rendered \o dispatch(selected_plot, df_clean).out
    /\ pc' = "L115"
    /\ UNCHANGED <<file_status, file_rows, cache, reads, runs, df, selected_plot,
                   show_raw, preview, raised>>

\* lines 115-117
Preview ==
    /\ pc = "L115"
    /\ preview' = IF show_raw THEN [shown |-> TRUE, rows |-> head(df_clean, HEAD_ROWS)]
                  ELSE preview
    /\ pc' = "idle"
    /\ UNCHANGED <<file_status, file_rows, cache, reads, runs, df, df_clean,
                   selected_plot, show_raw, rendered, raised>>

\* the user changes a widget and Streamlit runs the script again
Interact ==
    /\ pc = "idle"
    /\ runs < MaxRuns
    /\ runs' = runs + 1
    /\ selected_plot' \in {PLOT_OPTIONS[i] : i \in 1..Len(PLOT_OPTIONS)}
    /\ show_raw' \in BOOLEAN
    /\ pc' = "L43"
    /\ df' = <<>>
    /\ df_clean' = <<>>
    /\ rendered' = <<>>
    /\ preview' = NoPreview
    /\ raised' = "none"
    /\ UNCHANGED <<file_status, file_rows, cache, reads>>

\* between two runs the file on disk is replaced, removed or restored
FileChange ==
    /\ pc = "idle"
    /\ \E f \in Files(AppTables) \ {<<file_status, file_rows>>} :
           file_status' = f[1] /\ file_rows' = f[2]
    /\ UNCHANGED <<cache, reads, runs, pc, df, df_clean, selected_plot, show_raw,
                   rendered, preview, raised>>

LoadData ==
    \/ CacheMiss
    \/ ReadCsv
    \/ CleanSqft
    \/ DropnaSize
    \/ DeriveBHK
    \/ DropnaCritical
    \/ PricePerSqft
    \/ FilterReturn

Next ==
    \/ CacheHit
    \/ LoadData
    \/ Dispatch
    \/ Preview
    \/ Interact
    \/ FileChange

Spec == Init /\ [][Next]_vars

\* load_data alone, on every file of at most MaxRows rows
InitClean ==
    /\ file_status = "ok"
    /\ file_rows \in Tables
    /\ FirstRun

SpecClean == InitClean /\ [][LoadData]_vars

(***************************************************************************)
(* Properties                                                              *)
(***************************************************************************)
\* line 43 has returned in this run: df_clean is bound
Returned == pc \in {"L103", "L115"} \/ (pc = "idle" /\ raised = "none")

\* the first space-delimited token of a size, as an integer
LeadingInt(size) == ParseInt(Split(size.s, " ")[1])

HasBHKWord(size) ==
    IsStr(size) /\ (Contains(size.s, BHK_SUBSTR) \/ Contains(size.s, BEDROOM_SUBSTR))

\* C1: malformed size and total_sqft fields never make load_data raise: on a
\* readable file every call returns a table.
C1_FieldsNeverRaise == file_status = "ok" => raised = "none"

\* the positions of the hyphens of s
HyphenAt(s) == {h \in 1..Len(s) : s[h] = "-"}

\* C2 as stated: whenever a total_sqft string reads a - b with a and b both
\* parseable floats the cleaned value is (a+b)/2, and a string with one hyphen
\* one of whose sides does not parse is cleaned to missing.
C2_AnyParseableEndpoints ==
    pc = "L30" =>
        \A i \in 1..Len(df) :
            LET x == file_rows[i].total_sqft
            IN  IsStr(x) =>
                    \A h \in HyphenAt(x.s) :
                        LET a == ParseFloat(Slice(x.s, 1, h - 1))
                            b == ParseFloat(Slice(x.s, h + 1, Len(x.s)))
                        IN  /\ (a.ok /\ b.ok) =>
                                df[i].total_sqft
                                    = PyFloat(FDiv(FAdd(a.f, b.f), Fin(2, 1)))
                            /\ (Cardinality(HyphenAt(x.s)) = 1 /\ ~(a.ok /\ b.ok)) =>
                                df[i].total_sqft = Missing

\* are the hyphen-separated parts of s exactly two floats
TwoFloatParts(s) ==
    /\ Len(Split(s, "-")) = 2
    /\ \A k \in 1..2 : ParseFloat(Strip(Split(s, "-")[k])).ok

\* does some hyphen-separated part of s fail to parse as a float
SomePartFails(s) ==
    \E k \in 1..Len(Split(s, "-")) : ~ParseFloat(Strip(Split(s, "-")[k])).ok

\* C2 amended: a total_sqft string with a hyphen is split at every hyphen; when
\* that gives exactly two parts a and b that both parse (after trimming) the
\* cleaned value is (a+b)/2, and when any part fails to parse it is missing.
C2_RangeMean ==
    pc = "L30" =>
        \A i \in 1..Len(df) :
            LET x == file_rows[i].total_sqft
            IN  (IsStr(x) /\ HyphenAt(x.s) # {}) =>
                    /\ TwoFloatParts(x.s) =>
                           df[i].total_sqft
                               = PyFloat(FDiv(FAdd(ParseFloat(Strip(Split(x.s, "-")[1])).f,
                                                   ParseFloat(Strip(Split(x.s, "-")[2])).f),
                                              Fin(2, 1)))
                    /\ SomePartFails(x.s) => df[i].total_sqft = Missing

\* a range whose endpoints differ has been resolved next to a range with a
\* part that does not parse
C2_Witness ==
    /\ pc = "L30"
    /\ \E i \in 1..Len(df) :
           /\ IsStr(file_rows[i].total_sqft)
           /\ TwoFloatParts(file_rows[i].total_sqft.s)
           /\ df[i].total_sqft = PyFloat(Fin(1100, 1))
    /\ \E j \in 1..Len(df) :
           /\ IsStr(file_rows[j].total_sqft)
           /\ HyphenAt(file_rows[j].total_sqft.s) # {}
           /\ SomePartFails(file_rows[j].total_sqft.s)
           /\ df[j].total_sqft = Missing

\* C3: every total_sqft of a returned table is finite and not negative.
C3_SqftFiniteNonNegative ==
    Returned =>
        \A i \in 1..Len(df_clean) :
            /\ IsFinite(df_clean[i].total_sqft.f)
            /\ ~FLess(df_clean[i].total_sqft.f, Fin(0, 1))

\* C4: every BHK of a returned table is an integer >= 1, the leading token of
\* the row's size, and that size contains "BHK" or "Bedroom".
C4_BHKPositive ==
    Returned =>
        \A i \in 1..Len(df_clean) :
            /\ HasBHKWord(df_clean[i].size)
            /\ LeadingInt(df_clean[i].size).ok
            /\ df_clean[i].BHK = PyFloat(Fin(LeadingInt(df_clean[i].size).n, 1))
            /\ LeadingInt(df_clean[i].size).n >= 1

\* the file rows that the filters of load_data let through
Survivors ==
    {i \in 1..Len(file_rows) :
        /\ ~IsNA(file_rows[i].size)
        /\ HasBHKWord(file_rows[i].size)
        /\ ~IsNaN(clean_sqft(file_rows[i].total_sqft))
        /\ ~IsNA(file_rows[i].price)
        /\ ~IsNA(file_rows[i].location)
        /\ LeadingInt(file_rows[i].size).n < BHK_LIMIT}

\* C5: a returned table holds exactly the file rows whose size, BHK, cleaned
\* total_sqft, price and location are present and whose BHK is below 10, in
\* file order and with their fields as read.
C5_ExactlySurvivors ==
    Returned =>
        /\ {df_clean[k].index : k \in 1..Len(df_clean)} = Survivors
        /\ \A k \in 1..(Len(df_clean) - 1) : df_clean[k].index < df_clean[k + 1].index
        /\ \A k \in 1..Len(df_clean) :
               LET r == file_rows[df_clean[k].index]
               IN  /\ df_clean[k].size = r.size
                   /\ df_clean[k].price = r.price
                   /\ df_clean[k].location = r.location
                   /\ df_clean[k].area_type = r.area_type

\* a two-row file whose first row is valid but for a BHK of 10 and whose
\* second row is kept
C5_Witness ==
    /\ Returned
    /\ Len(file_rows) = 2
    /\ file_rows[1].size = PyStr(<<"1", "0", " ", "B", "H", "K">>)
    /\ ~IsNaN(clean_sqft(file_rows[1].total_sqft))
    /\ ~IsNA(file_rows[1].price)
    /\ ~IsNA(file_rows[1].location)
    /\ Len(df_clean) = 1
    /\ df_clean[1].index = 2

\* C6: on every row of a returned table total_sqft > 0 and
\* price_per_sqft * total_sqft = price * 100000.
C6_RoundTrip ==
    Returned =>
        \A i \in 1..Len(df_clean) :
            /\ FLess(Fin(0, 1), df_clean[i].total_sqft.f)
            /\ FMul(df_clean[i].price_per_sqft.f, df_clean[i].total_sqft.f)
                   = FMul(df_clean[i].price.f, Fin(LAKH, 1))

\* C7 as stated: over all the runs of a process the source is read and parsed
\* on the first call of load_data only.
C7_ReadOnFirstCallOnly == reads <= 1

\* C7 amended: the source is read on each call until a call returns a table;
\* from then on no call reads it again and every call returns that same table,
\* whatever has become of the file.
C7_ComputedOnce ==
    /\ [](Returned => (cache.hit /\ df_clean = cache.df))
    /\ [][cache.hit => (cache' = cache /\ reads' = reads)]_vars

\* a later run is served the cached table although the file is gone
C7_Witness ==
    /\ runs >= 2
    /\ pc = "L103"
    /\ reads = 1
    /\ file_status = "absent"
    /\ df_clean # <<>>
    /\ df_clean = cache.df

IsOption(sel) == \E i \in 1..Len(PLOT_OPTIONS) : sel = PLOT_OPTIONS[i]

C9_FailureEndsRun ==
    /\ raised # "none" =>
           (pc = "idle" /\ rendered = <<>> /\ ~preview.shown /\ df_clean = <<>>)
    /\ pc \in {"L27", "L30", "L31", "L34", "L37", "L40"} => file_status = "ok"

\* a run has ended on an unreadable source
C9_Witness ==
    /\ raised = "source"
    /\ file_status # "ok"
    /\ pc = "idle"
    /\ reads >= 1

\* C10: rendering a chart and showing the preview leave df_clean and the cached
\* table as they were, and the preview leaves the rendered chart as it was.
C10_PresentationReadOnly ==
    [][(pc = "L103" \/ pc = "L115") =>
           ((df_clean' = df_clean) /\ (cache' = cache) /\
            (pc = "L115" => rendered' = rendered))]_vars

\* the scatter plot has left a point undrawn and the preview has shown the
\* whole table
C10_Witness ==
    /\ pc = "idle"
    /\ Len(rendered) = 1
    /\ rendered[1].kind = 4
    /\ Len(rendered[1].drawn) < Len(df_clean)
    /\ preview.shown
    /\ preview.rows = df_clean
====
